---- MODULE Spec2Model ----
(***************************************************************************)
(* Model of the crossword constraint solver, CrosswordCreator, of          *)
(* Week3/Project3/crossword/generate.py: node consistency, AC-3 and the    *)
(* backtracking search, as a state machine over the solver's fields.       *)
(*                                                                         *)
(* Words are tuples of letters (word[k] of the code is word[k+1] here).    *)
(* A Python dict is a function whose DOMAIN is its key set.  The dict      *)
(* objects that self.domains and the prev_domains of the active frames may *)
(* name are kept in a heap indexed by object identity, so that two names   *)
(* for one dict are two references to one heap cell.  The iteration order  *)
(* of a Python set is not fixed by the language: wherever the code walks a *)
(* set, every order is a behaviour of the model.                           *)
(***************************************************************************)
EXTENDS Integers, Sequences, FiniteSets, TLC

VARIABLES
    crossword,    \* self.crossword: [variables, overlaps, words], read-only
    heap,         \* dict objects: identity -> (variable -> set of words)
    cur,          \* identity of the dict that self.domains names
    assignment,   \* the one assignment dict shared by every backtrack frame
    stack,        \* active calls of backtrack, outermost first
    pending,      \* ac3: arcs of the initial collection not yet popped
    tail,         \* ac3: arcs appended to the queue by the loop, in order
    popped,       \* ac3: the arc (x, y) last popped and what revise(x, y)
                  \* returned, while ac3 runs and as it returns
    pc,           \* position of the control flow of solve()
    ctx,          \* caller of the running or last ac3: "solve" or "backtrack"
    ac3ret,       \* value returned by the last ac3 call
    globalret,    \* value returned by the ac3 call of solve()
    result        \* value returned by solve()

vars == <<crossword, heap, cur, assignment, stack, pending, tail, popped, pc,
          ctx, ac3ret, globalret, result>>

(***************************************************************************)
(* Bounds of the model.                                                    *)
(***************************************************************************)
\* largest vocabulary handed to the solver
MaxWords == 4

(***************************************************************************)
(* Values that stand for Python's None and for absent objects.             *)
(***************************************************************************)
\* overlaps[x, y] of two variables that share no cell
None == <<>>
\* a heap cell that holds no dict
NoDict == <<>>
\* a frame that has no value committed
NoValue == <<>>

ACROSS == "across"
DOWN == "down"

(***************************************************************************)
(* The constraint graph supplied by the Crossword collaborator.            *)
(***************************************************************************)
Variable(i, j, direction, length) ==
    [i |-> i, j |-> j, direction |-> direction, length |-> length]

\* the k-th cell (k from 0) of a variable, as letter_grid walks it
Cell(variable, k) ==
    <<variable.i + (IF variable.direction = DOWN THEN k ELSE 0),
      variable.j + (IF variable.direction = ACROSS THEN k ELSE 0)>>

Cells(variable) == {Cell(variable, k) : k \in 0..(variable.length - 1)}

\* overlaps[x, y]: None, or the offsets (i, j) of the shared cell in x and y
Overlap(x, y) ==
    IF Cells(x) \cap Cells(y) = {}
    THEN None
    ELSE CHOOSE p \in (0..(x.length - 1)) \X (0..(y.length - 1)) :
            Cell(x, p[1]) = Cell(y, p[2])

Overlaps(variables) ==
    [p \in {q \in variables \X variables : q[1] # q[2]} |-> Overlap(p[1], p[2])]

\* crossword.neighbors(var)
Neighbors(var) ==
    {v \in crossword.variables : v # var /\ crossword.overlaps[<<v, var>>] # None}

\* The grid structures the solver is run on.
Structures ==
    { \* one slot
      {Variable(0, 0, ACROSS, 2)},
      \* one slot of length 3
      {Variable(0, 0, ACROSS, 3)},
      \* two slots that share no cell
      {Variable(0, 0, ACROSS, 2), Variable(2, 0, ACROSS, 2)},
      \* two crossing slots: across[1] = down[0]
      {Variable(0, 0, ACROSS, 2), Variable(0, 1, DOWN, 2)},
      \* three slots that share no cell
      {Variable(0, 0, ACROSS, 2), Variable(2, 0, ACROSS, 2), Variable(4, 0, ACROSS, 2)},
      \* a down slot crossed by two across slots
      {Variable(0, 0, ACROSS, 2), Variable(0, 1, DOWN, 3), Variable(2, 0, ACROSS, 2)},
      \* a full 2 x 2 block: two across and two down slots
      {Variable(0, 0, ACROSS, 2), Variable(1, 0, ACROSS, 2),
       Variable(0, 0, DOWN, 2), Variable(0, 1, DOWN, 2)},
      \* two separate pairs of crossing slots: across[1] = down[1] in each
      {Variable(1, 0, ACROSS, 2), Variable(0, 1, DOWN, 2),
       Variable(4, 0, ACROSS, 2), Variable(3, 1, DOWN, 2)} }

\* The words a vocabulary is drawn from.
WordPool ==
    { <<"a", "a">>, <<"a", "b">>, <<"b", "a">>, <<"b", "b">>, <<"a", "b", "a">>, <<"b", "a", "b">> }

Vocabularies == {ws \in SUBSET WordPool : Cardinality(ws) <= MaxWords}

\* identities of dict objects: 0 is the dict made by __init__, d the
\* prev_domains of the backtrack call at depth d
Ids == 0..Cardinality(crossword.variables)

(***************************************************************************)
(* Pure helpers of CrosswordCreator.                                       *)
(***************************************************************************)
\* self.domains
Domains == heap[cur]

\* check_overlap with the test of line 113 inverted: True for every pair of
\* variables that share a cell
check_overlap_inverted(x, y, word_x, word_y) ==
    IF crossword.overlaps[<<x, y>>] # None
    THEN TRUE
    ELSE word_x = word_y

check_overlap(x, y, word_x, word_y) ==
    IF crossword.overlaps[<<x, y>>] = None
    THEN TRUE
    ELSE LET i == crossword.overlaps[<<x, y>>][1]
             j == crossword.overlaps[<<x, y>>][2]
         IN word_x[i + 1] = word_y[j + 1]

\* enforce_node_consistency removing only the words that are too long
NodeConsistentTooLong(domains) ==
    [var \in DOMAIN domains |->
        LET to_remove == {word \in domains[var] : Len(word) > var.length}
        IN domains[var] \ to_remove]

\* enforce_node_consistency: the domains after the loop
NodeConsistent(domains) ==
    [var \in DOMAIN domains |->
        LET to_remove == {word \in domains[var] : Len(word) # var.length}
        IN domains[var] \ to_remove]

\* revise without the `if word_x == word_y: continue` of lines 135-136
ToRemoveSameWordCounts(domains, x, y) ==
    {word_x \in domains[x] :
        ~ \E word_y \in domains[y] : check_overlap(x, y, word_x, word_y)}

\* revise: the words of domains[x] put in to_remove
ToRemove(domains, x, y) ==
    {word_x \in domains[x] :
        ~ \E word_y \in domains[y] :
            /\ word_x # word_y
            /\ check_overlap(x, y, word_x, word_y)}

\* revise: the domains after the call
Revise(domains, x, y) ==
    [domains EXCEPT ![x] = domains[x] \ ToRemove(domains, x, y)]

\* revise that returns True whatever it removed
RevisedAlways(domains, x, y) == TRUE

\* revise: the value returned
Revised(domains, x, y) == ToRemove(domains, x, y) # {}

\* ac3 with arcs None: the initial set of arcs
AllArcs ==
    {a \in crossword.variables \X crossword.variables : a[2] \in Neighbors(a[1])}

\* a walk that yields nothing: the loop of lines 171-173 appends no arc
OrdersNothing(S) == {<<>>}

\* every order in which a set can be walked
Orders(S) ==
    {s \in [1..Cardinality(S) -> S] : \A a, b \in 1..Cardinality(S) : a # b => s[a] # s[b]}

assignment_complete(asg) ==
    Cardinality(crossword.variables) = Cardinality(DOMAIN asg)

\* consistent: False as soon as one entry has the wrong length, a value seen
\* before, or a conflict with an assigned neighbour
consistent(asg) ==
    \A var \in DOMAIN asg :
        /\ Len(asg[var]) = var.length
        /\ \A other \in DOMAIN asg : other # var => asg[other] # asg[var]
        /\ \A neighbor \in Neighbors(var) :
              neighbor \in DOMAIN asg =>
                 check_overlap(var, neighbor, asg[var], asg[neighbor])

\* order_domain_values: counts[value]
Count(domains, var, value) ==
    LET bad(neighbor) ==
            {neighbor_value \in domains[neighbor] :
                ~ check_overlap(var, neighbor, value, neighbor_value)}
        RECURSIVE Sum(_)
        Sum(ns) == IF ns = {} THEN 0
                   ELSE LET n == CHOOSE n \in ns : TRUE
                        IN Cardinality(bad(n)) + Sum(ns \ {n})
    IN Sum(Neighbors(var))

\* order_domain_values: the values not yet tried that a stable sort by count
\* of an arbitrarily ordered list may put first
FirstValues(counts, left) ==
    {value \in left : \A other \in left : counts[value] <= counts[other]}

\* select_unassigned_variable: the variables a stable sort by
\* (domain size, -degree) of an arbitrarily ordered list may put first
SelectKeyLeq(domains, x, y) ==
    \/ Cardinality(domains[x]) < Cardinality(domains[y])
    \/ /\ Cardinality(domains[x]) = Cardinality(domains[y])
       /\ Cardinality(Neighbors(x)) >= Cardinality(Neighbors(y))

\* select_unassigned_variable with the degree not negated in the sort key:
\* among the smallest domains, the fewest neighbours first
select_fewest_neighbors(domains, asg) ==
    LET valid == {var \in crossword.variables : var \notin DOMAIN asg}
    IN {var \in valid : \A other \in valid :
           \/ Cardinality(domains[var]) < Cardinality(domains[other])
           \/ /\ Cardinality(domains[var]) = Cardinality(domains[other])
              /\ Cardinality(Neighbors(var)) <= Cardinality(Neighbors(other))}

\* select_unassigned_variable without the sort: any unassigned variable
select_unsorted(domains, asg) ==
    {var \in crossword.variables : var \notin DOMAIN asg}

\* select_unassigned_variable with the sort reversed: the largest domain first
select_largest_domain(domains, asg) ==
    LET valid == {var \in crossword.variables : var \notin DOMAIN asg}
    IN {var \in valid : \A other \in valid :
           Cardinality(domains[var]) >= Cardinality(domains[other])}

select_unassigned_variable(domains, asg) ==
    LET valid == {var \in crossword.variables : var \notin DOMAIN asg}
    IN {var \in valid : \A other \in valid : SelectKeyLeq(domains, var, other)}

EmptyAssignment == <<>>

AssignTo(asg, var, value) ==
    [v \in (DOMAIN asg) \cup {var} |-> IF v = var THEN value ELSE asg[v]]

Del(asg, var) == [v \in (DOMAIN asg) \ {var} |-> asg[v]]

(***************************************************************************)
(* The state after CrosswordCreator(crossword), at the call of solve().    *)
(***************************************************************************)
Init ==
    /\ \E variables \in Structures, words \in Vocabularies :
          crossword = [variables |-> variables,
                       overlaps |-> Overlaps(variables),
                       words |-> words]
    /\ heap = [id \in Ids |->
                 IF id = 0 THEN [var \in crossword.variables |-> crossword.words]
                 ELSE NoDict]
    /\ cur = 0
    /\ assignment = EmptyAssignment
    /\ stack = <<>>
    /\ pending = {}
    /\ tail = <<>>
    /\ popped = <<>>
    /\ pc = "solve"
    /\ ctx = "solve"
    /\ ac3ret = "pending"
    /\ globalret = "pending"
    /\ result = [status |-> "running", value |-> EmptyAssignment]

\* the frame of the innermost active call of backtrack
Top == stack[Len(stack)]

(***************************************************************************)
(* solve(): self.enforce_node_consistency()                                *)
(***************************************************************************)
enforce_node_consistency ==
    /\ pc = "solve"
    /\ heap' = [heap EXCEPT ![cur] = NodeConsistent(heap[cur])]
    /\ pc' = "ac3_call"
    /\ popped' = <<>>
    /\ UNCHANGED <<crossword, cur, assignment, stack, pending, tail, ctx,
                   ac3ret, globalret, result>>

(***************************************************************************)
(* solve(): self.ac3(), up to queue = deque(arcs)                          *)
(***************************************************************************)
ac3_all_arcs ==
    /\ pc = "ac3_call"
    /\ pending' = AllArcs
    /\ tail' = <<>>
    /\ ctx' = "solve"
    /\ ac3ret' = "pending"
    /\ pc' = "ac3"
    /\ popped' = <<>>
    /\ UNCHANGED <<crossword, heap, cur, assignment, stack, globalret, result>>

\* where ac3 returns to: both callers go on with a call of backtrack and
\* drop the value returned
Ac3Return(value) ==
    /\ ac3ret' = value
    /\ globalret' = IF ctx = "solve" THEN value ELSE globalret
    /\ stack' = IF ctx = "backtrack"
                THEN [stack EXCEPT ![Len(stack)].failed = (value = "False")]
                ELSE stack
    /\ pending' = {}
    /\ tail' = <<>>
    /\ pc' = "backtrack"

\* the arcs that popleft may return: any arc of the initial collection while
\* one is left, then the appended arcs in the order of their appending
NextArcs == IF pending # {} THEN pending ELSE {Head(tail)}

\* one turn of the while loop of ac3
ac3_step ==
    /\ pc = "ac3"
    /\ pending # {} \/ tail # <<>>
    /\ \E arc \in NextArcs :
         LET x == arc[1]
             y == arc[2]
             rest_pending == pending \ {arc}
             rest_tail == IF pending # {} THEN tail ELSE Tail(tail)
             domains == Revise(Domains, x, y)
         IN /\ heap' = [heap EXCEPT ![cur] = domains]
            /\ popped' = <<[x |-> x, y |-> y, revised |-> Revised(Domains, x, y)]>>
            /\ IF Revised(Domains, x, y)
               THEN IF domains[x] = {}
                    THEN Ac3Return("False")
                    ELSE /\ \E order \in Orders({<<neighbor, x>> :
                                          neighbor \in Neighbors(x) \ {y}}) :
                               tail' = rest_tail \o order
                         /\ pending' = rest_pending
                         /\ UNCHANGED <<stack, pc, ac3ret, globalret>>
               ELSE /\ pending' = rest_pending
                    /\ tail' = rest_tail
                    /\ UNCHANGED <<stack, pc, ac3ret, globalret>>
    /\ UNCHANGED <<crossword, cur, assignment, ctx, result>>

\* the while loop of ac3 ends with the queue empty
ac3_return_true ==
    /\ pc = "ac3"
    /\ pending = {} /\ tail = <<>>
    /\ Ac3Return("True")
    /\ UNCHANGED <<crossword, heap, cur, assignment, popped, ctx, result>>

(***************************************************************************)
(* backtrack(assignment)                                                   *)
(***************************************************************************)
\* lines 246-247: the assignment is complete and is returned through every
\* active call (each `if result: return result`)
backtrack_return_assignment ==
    /\ pc = "backtrack"
    /\ assignment_complete(assignment)
    /\ result' = [status |-> "assignment", value |-> assignment]
    /\ stack' = <<>>
    /\ pc' = "done"
    /\ popped' = <<>>
    /\ UNCHANGED <<crossword, heap, cur, assignment, pending, tail, ctx,
                   ac3ret, globalret>>

\* lines 249-251: select the variable, copy the domains, order the values
backtrack_select ==
    /\ pc = "backtrack"
    /\ ~ assignment_complete(assignment)
    /\ \E var \in select_unassigned_variable(Domains, assignment) :
         LET prev_domains == Len(stack) + 1
         IN /\ heap' = [heap EXCEPT ![prev_domains] = Domains]
            /\ stack' = Append(stack,
                   [var |-> var,
                    counts |-> [value \in Domains[var] |-> Count(Domains, var, value)],
                    left |-> Domains[var],
                    prev_domains |-> prev_domains,
                    snapshot |-> Domains,
                    value |-> NoValue,
                    failed |-> FALSE])
    /\ pc' = "loop"
    /\ popped' = <<>>
    /\ UNCHANGED <<crossword, cur, assignment, pending, tail, ctx, ac3ret,
                   globalret, result>>

\* lines 252-256: the next value, the assignment being consistent
backtrack_commit ==
    /\ pc = "loop"
    /\ Top.left # {}
    /\ consistent(assignment)
    /\ \E value \in FirstValues(Top.counts, Top.left) :
         /\ assignment' = AssignTo(assignment, Top.var, value)
         /\ heap' = [heap EXCEPT ![cur][Top.var] = {value}]
         /\ stack' = [stack EXCEPT ![Len(stack)].left = @ \ {value},
                                   ![Len(stack)].value = value]
    /\ pending' = {<<neighbor, Top.var>> : neighbor \in Neighbors(Top.var)}
    /\ tail' = <<>>
    /\ ctx' = "backtrack"
    /\ ac3ret' = "pending"
    /\ pc' = "ac3"
    /\ popped' = <<>>
    /\ UNCHANGED <<crossword, cur, globalret, result>>

\* line 252: the next value, the assignment not being consistent
backtrack_skip ==
    /\ pc = "loop"
    /\ Top.left # {}
    /\ ~ consistent(assignment)
    /\ \E value \in FirstValues(Top.counts, Top.left) :
         stack' = [stack EXCEPT ![Len(stack)].left = @ \ {value}]
    /\ popped' = <<>>
    /\ UNCHANGED <<crossword, heap, cur, assignment, pending, tail, pc, ctx,
                   ac3ret, globalret, result>>

\* line 263 in a recursive call, then lines 258-261 in its caller
backtrack_undo ==
    /\ pc = "loop"
    /\ Top.left = {}
    /\ Len(stack) > 1
    /\ LET caller == stack[Len(stack) - 1]
       IN /\ assignment' = Del(assignment, caller.var)
          /\ cur' = caller.prev_domains
          /\ heap' = [heap EXCEPT ![Top.prev_domains] = NoDict]
          /\ stack' = [SubSeq(stack, 1, Len(stack) - 1)
                          EXCEPT ![Len(stack) - 1].value = NoValue,
                                 ![Len(stack) - 1].failed = FALSE]
    /\ popped' = <<>>
    /\ UNCHANGED <<crossword, pending, tail, pc, ctx, ac3ret, globalret, result>>

\* line 263 in the call made by solve()
backtrack_return_none ==
    /\ pc = "loop"
    /\ Top.left = {}
    /\ Len(stack) = 1
    /\ result' = [status |-> "None", value |-> EmptyAssignment]
    /\ stack' = <<>>
    /\ pc' = "done"
    /\ popped' = <<>>
    /\ UNCHANGED <<crossword, heap, cur, assignment, pending, tail, ctx,
                   ac3ret, globalret>>

Next ==
    \/ enforce_node_consistency
    \/ ac3_all_arcs
    \/ ac3_step
    \/ ac3_return_true
    \/ backtrack_return_assignment
    \/ backtrack_select
    \/ backtrack_commit
    \/ backtrack_skip
    \/ backtrack_undo
    \/ backtrack_return_none

Spec == Init /\ [][Next]_vars

(***************************************************************************)
(* ac3(arcs) called on its own                                             *)
(***************************************************************************)
\* the largest number of arcs passed to a call of ac3 on its own
MaxArcs == 3

\* the domains a caller of ac3 holds: the node consistent ones, as solve
\* has them at line 95, or those with one slot set to one of its words, as
\* backtrack has them at line 255
Ac3Domains ==
    LET start == NodeConsistent([var \in crossword.variables |-> crossword.words])
    IN {start} \cup UNION {{[start EXCEPT ![var] = {value}] : value \in start[var]} :
                              var \in crossword.variables}

\* a call ac3(arcs): arcs is any collection of at most MaxArcs arcs of the
\* crossword; line 165 makes it the queue
Ac3Init ==
    /\ \E variables \in Structures, words \in Vocabularies :
          crossword = [variables |-> variables,
                       overlaps |-> Overlaps(variables),
                       words |-> words]
    /\ \E domains \in Ac3Domains :
          heap = [id \in Ids |-> IF id = 0 THEN domains ELSE NoDict]
    /\ cur = 0
    /\ assignment = EmptyAssignment
    /\ stack = <<>>
    /\ pending \in {arcs \in SUBSET AllArcs : Cardinality(arcs) <= MaxArcs}
    /\ tail = <<>>
    /\ popped = <<>>
    /\ pc = "ac3"
    /\ ctx = "solve"
    /\ ac3ret = "pending"
    /\ globalret = "pending"
    /\ result = [status |-> "running", value |-> EmptyAssignment]

\* the call runs its while loop until it returns
Ac3Next == ac3_step \/ ac3_return_true

\* the call is sequential code: while the loop can make a turn or return,
\* it does
Ac3Spec == Ac3Init /\ [][Ac3Next]_vars /\ WF_vars(Ac3Next)

(***************************************************************************)
(* Properties of solve().                                                  *)
(***************************************************************************)
\* solve() has returned
Returned == pc = "done"

\* the two words of f agree at the shared cell of x and y, if there is one
AgreeAt(f, x, y) ==
    crossword.overlaps[<<x, y>>] # None =>
        f[x][crossword.overlaps[<<x, y>>][1] + 1] = f[y][crossword.overlaps[<<x, y>>][2] + 1]

\* C1: every value returned by solve() is None or a complete assignment:
\* a key for every slot, every word of its slot's length, and every pair of
\* neighbouring slots with the same letter in the shared cell.
C1_ReturnedAssignmentComplete ==
    Returned =>
        \/ result.status = "None"
        \/ /\ result.status = "assignment"
           /\ DOMAIN result.value = crossword.variables
           /\ \A x \in crossword.variables : Len(result.value[x]) = x.length
           /\ \A x, y \in crossword.variables :
                 x # y => AgreeAt(result.value, x, y)

\* C1 witness: solve() has returned an assignment for a crossword in which
\* slots cross.
C1_Witness ==
    /\ Returned
    /\ result.status = "assignment"
    /\ \E x, y \in crossword.variables :
          x # y /\ crossword.overlaps[<<x, y>>] # None

\* C2: in every assignment returned by solve() no two distinct slots hold
\* the same word, slots that share no cell included.
C2_ReturnedWordsDistinct ==
    (Returned /\ result.status = "assignment") =>
        \A x, y \in DOMAIN result.value :
            x # y => result.value[x] # result.value[y]

\* a consistent complete assignment: lengths match, words pairwise
\* distinct, neighbours agree at their overlaps
IsSolution(f) ==
    /\ \A x \in crossword.variables : Len(f[x]) = x.length
    /\ \A x, y \in crossword.variables :
          x # y => (f[x] # f[y] /\ AgreeAt(f, x, y))

Solvable == \E f \in [crossword.variables -> crossword.words] : IsSolution(f)

\* C3: when a consistent complete assignment exists, solve() returns an
\* assignment and not None, whatever the order of tied candidates and slots.
C3_NoneOnlyWhenUnsolvable ==
    (Returned /\ Solvable) => result.status = "assignment"

\* C4: after a branch of backtrack has failed, the domains are, for every
\* slot, the snapshot taken when the call selected its slot, before any
\* candidate was committed: for the first failed candidate and every later.
C4_DomainsRestored ==
    (pc = "loop" /\ Top.left # DOMAIN Top.counts) => Domains = Top.snapshot

\* C5 as claimed: once the ac3 pass of solve() has returned False, solve()
\* returns None and no step of backtrack (variable selection, candidate
\* ordering, commitment) is run.
C5_NoBacktrackingAfterFailedPass ==
    globalret = "False" =>
        /\ stack = <<>>
        /\ Returned => result.status = "None"

\* C5 as amended: once the ac3 pass of solve() has returned False, solve()
\* returns None; backtrack is still called once, selects a slot whose domain
\* is empty, and neither tries nor commits any candidate.
C5_FailedPassReturnsNone ==
    globalret = "False" =>
        /\ assignment = EmptyAssignment
        /\ Len(stack) <= 1
        /\ \A d \in 1..Len(stack) : stack[d].counts = <<>> /\ stack[d].value = NoValue
        /\ Returned => result.status = "None"

\* C5 witness: solve() has returned after its ac3 pass returned False.
C5_Witness == globalret = "False" /\ Returned

\* C6: ac3 returns False whenever some slot's domain is empty when it
\* returns (so True only when no domain is empty), also for a slot emptied by
\* node consistency, with or without neighbours.
C6_EmptyDomainReturnsFalse ==
    (pc = "backtrack" /\ \E var \in crossword.variables : Domains[var] = {})
        => ac3ret = "False"

\* every word of every domain has a different, compatible word in the domain
\* of each neighbour
ArcConsistent(domains) ==
    \A x \in crossword.variables : \A y \in Neighbors(x) :
        \A w \in domains[x] :
            \E w2 \in domains[y] : w2 # w /\ AgreeAt([v \in {x, y} |-> IF v = x THEN w ELSE w2], x, y)

\* C7: whenever a call of ac3 made during solve() returns True, the domains
\* are arc consistent.
C7_TrueMeansArcConsistent ==
    (pc = "backtrack" /\ ac3ret = "True") => ArcConsistent(Domains)

\* C8: enforce_node_consistency removes from each domain exactly the words
\* whose length differs from the slot's: every word left has the slot's
\* length, and every word of the prior domain with that length is left.
C8_NodeConsistencyExact ==
    pc = "ac3_call" =>
        \A var \in crossword.variables :
            /\ \A w \in Domains[var] : w \in crossword.words /\ Len(w) = var.length
            /\ \A w \in crossword.words : Len(w) = var.length => w \in Domains[var]

\* C8 witness: enforce_node_consistency has removed some words of a domain
\* and kept others.
C8_Witness ==
    /\ pc = "ac3_call"
    /\ \E var \in crossword.variables :
          Domains[var] # {} /\ Domains[var] # crossword.words

\* C9: in every reachable state of the search the partial assignment is
\* consistent: words of their slot's length, pairwise distinct, assigned
\* neighbours agreeing at their overlaps.
C9_PartialAssignmentConsistent ==
    /\ \A x \in DOMAIN assignment : Len(assignment[x]) = x.length
    /\ \A x, y \in DOMAIN assignment :
          x # y => (assignment[x] # assignment[y] /\ AgreeAt(assignment, x, y))

\* C10: when the ac3 pass run after a commitment returns False, no slot is
\* committed beneath that commitment, no assignment is returned from
\* beneath it, and once the call beneath has found no candidate the
\* commitment is removed from the assignment.
C10_DeadBranchAbandoned ==
    [][\A d \in 1..Len(stack) :
          stack[d].failed =>
             /\ DOMAIN assignment' \subseteq DOMAIN assignment
             /\ result'.status # "assignment"
             /\ pc = "loop" => stack[d].var \notin DOMAIN assignment']_vars

\* C10 witness: the ac3 pass run after a commitment has returned False and
\* the call beneath it has been entered.
C10_Witness ==
    pc = "loop" /\ \E d \in 1..Len(stack) : stack[d].failed

(***************************************************************************)
(* Properties of revise, ac3 and select_unassigned_variable.               *)
(***************************************************************************)
\* a turn of the while loop of ac3 is about to run
Ac3Turn == pc = "ac3" /\ (pending # {} \/ tail # <<>>)

\* C11: revise(x, y) removes from domain(x) exactly the words w for which
\* domain(y) holds no word w2 other than w with check_overlap(x, y, w, w2);
\* it returns True exactly when a word was removed; the domain of every other
\* slot, y included, is unchanged.
C11_ReviseExact ==
    [][Ac3Turn =>
         LET x == popped'[1].x
             y == popped'[1].y
             before == heap[cur]
             after == heap'[cur']
         IN /\ after[x] = {w \in before[x] :
                             \E w2 \in before[y] :
                                 w2 # w /\ check_overlap(x, y, w, w2)}
            /\ popped'[1].revised = (after[x] # before[x])
            /\ \A v \in crossword.variables : v # x => after[v] = before[v]]_vars

\* C11 witness: revise(x, y) has removed words of domain(x) and left others.
C11_Witness ==
    /\ pc = "ac3"
    /\ popped # <<>>
    /\ popped[1].revised
    /\ Domains[popped[1].x] # {}

\* the domains at the start of the ac3 pass of solve()
StartDomains ==
    [var \in crossword.variables |->
        {w \in crossword.words : Len(w) = var.length}]

\* the words of each domain that have, in the domain of every neighbour, a
\* different word that agrees at the overlap
Supported(domains) ==
    [x \in DOMAIN domains |->
        {w \in domains[x] :
            \A y \in Neighbors(x) :
                \E w2 \in domains[y] :
                    w2 # w /\ AgreeAt([v \in {x, y} |-> IF v = x THEN w ELSE w2], x, y)}]

\* the largest arc consistent domains within the given ones
RECURSIVE Fixpoint(_)
Fixpoint(domains) ==
    IF Supported(domains) = domains THEN domains ELSE Fixpoint(Supported(domains))

\* C12: the result of the ac3 pass of solve() does not depend on the order
\* in which arcs are taken from the queue: for every order of the initial
\* arcs and of the appended arcs the pass fails if and only if arc
\* consistency empties a domain that was not empty, and when it succeeds the
\* domains are the largest arc consistent domains within the starting ones.
C12_OrderIndependent ==
    (pc = "backtrack" /\ ctx = "solve") =>
        LET fix == Fixpoint(StartDomains)
        IN /\ ac3ret = "False" <=>
                 \E x \in crossword.variables : fix[x] = {} /\ StartDomains[x] # {}
           /\ ac3ret = "True" => Domains = fix

\* C12 witness: the ac3 pass of solve() has succeeded on a crossword of four
\* slots after removing words.
C12_Witness ==
    /\ pc = "backtrack"
    /\ ctx = "solve"
    /\ ac3ret = "True"
    /\ Cardinality(AllArcs) >= 4
    /\ Domains # StartDomains

\* the slots that have no value in the assignment
Unassigned == {var \in crossword.variables : var \notin DOMAIN assignment}

\* C13: select_unassigned_variable, called with a slot left unassigned,
\* returns an unassigned slot whose domain (as it was at the call) is of
\* minimum size among the unassigned slots, and among the unassigned slots
\* of that size one with the largest number of neighbours.
C13_SelectMinDomainMaxDegree ==
    pc = "loop" =>
        LET var == Top.var
            size(v) == Cardinality(Top.snapshot[v])
            degree(v) == Cardinality(Neighbors(v))
        IN /\ var \in Unassigned
           /\ \A other \in Unassigned : size(var) <= size(other)
           /\ \A other \in Unassigned :
                 size(other) = size(var) => degree(other) <= degree(var)

\* C13 witness: a slot has just been selected while another unassigned slot
\* had a domain of the same size and fewer neighbours.
C13_Witness ==
    /\ pc = "loop"
    /\ Top.left = DOMAIN Top.counts
    /\ Top.left # {}
    /\ \E other \in Unassigned :
          /\ Cardinality(Top.snapshot[other]) = Cardinality(Top.snapshot[Top.var])
          /\ Cardinality(Neighbors(other)) < Cardinality(Neighbors(Top.var))

\* ac3 has returned: with True, or with False right after a revise that
\* emptied the domain of the popped arc's first slot
Ac3Stopped ==
    /\ pc = "backtrack"
    /\ \/ ac3ret = "True"
       \/ /\ ac3ret = "False"
          /\ popped # <<>>
          /\ popped[1].revised
          /\ Domains[popped[1].x] = {}

\* C14: every call of ac3 terminates: once the loop of ac3 is entered it
\* eventually stops, with the queue empty (True) or right after a revise
\* that emptied the domain of x (False), although arcs (z, x) are appended
\* to the queue after each successful revise.
C14_Ac3Terminates == (pc = "ac3") ~> Ac3Stopped

\* C14 witness: the loop of ac3 has worked off the initial arcs, its last
\* turn revised a domain without emptying it, and the arcs appended by
\* successful revises are all that is left in the queue.
C14_Witness ==
    /\ pc = "ac3"
    /\ pending = {}
    /\ tail # <<>>
    /\ popped # <<>>
    /\ popped[1].revised

====
